---- MODULE Spec2Model ----
(***************************************************************************)
(* Frame pipelining and acceleration-structure build of cubulous_client.   *)
(*                                                                         *)
(* Spec      : RtRenderer::draw_frame / recreate_swap_chain / Drop, one    *)
(*             host thread stepping through draw_frame while the GPU queue *)
(*             retires submitted frames asynchronously.                    *)
(* SpecAccel : create_acceleration_structures (new_blas then new_tlas),    *)
(*             every build going through the one-shot command helpers.     *)
(* SpecTlas  : RtAccel::new_tlas as a function of its blas slice.          *)
(***************************************************************************)
EXTENDS Integers, Sequences, FiniteSets, TLC

\* rt_renderer.rs:19
MAX_FRAMES_IN_FLIGHT == 2

\* Bounds of the model (not program constants).
MaxTicks == 5
MaxGen == 3
MaxBlasRefs == 3
MaxItems == 2
MaxGroups == 3
MaxSizeOf == 3

Slots == 0 .. (MAX_FRAMES_IN_FLIGHT - 1)

\* VkResult codes the driver can return from acquire / present.
VkResults == {"SUCCESS", "SUBOPTIMAL_KHR", "ERROR_OUT_OF_DATE_KHR", "ERROR_DEVICE_LOST"}

VARIABLES
    pc,             \* position of the host thread inside draw_frame / Drop
    current_frame,  \* RtRenderer.current_frame
    fence,          \* in_flight_fences[s]: TRUE = signaled
    gpu,            \* graphics queue: submitted, unfinished frames (in order)
    cmdbuf,         \* command_buffers[s]: what the last recording references
    render_target,  \* generation handle held by RtRenderer.render_target
    canvas,         \* generation handle held by RtRenderer.canvas
    rtLive,         \* swapchain generations created and not destroyed
    cvLive,         \* canvas generations created and not destroyed
    descView,       \* descriptor_sets[s] binding 0: canvas generation of the view
    nextGen,        \* next fresh generation handle
    ret,            \* who entered cleanup_swap_chain: acquire / present / drop
    ticks,          \* number of draw_frame calls started
    frameLog,       \* current_frame observed by each tick, in order
    ops,            \* device calls issued by the current tick, in order
    acq,            \* VkResult of this tick's acquire_next_image ("none" before)
    pres,           \* VkResult of this tick's queue_present ("none" before)
    stale,          \* some acquire/present so far returned other than SUCCESS
    destroyed,      \* <<kind, generation>> of every destroy call so far, in order
    image_available, \* image_available_sems[s]: TRUE = signaled
    render_finished, \* render_finished_sems[s]: TRUE = signaled
    presentq,       \* present requests queued and not yet executed (in order)
    shown,          \* tick of the frame last put on screen (0 = none yet)
    rt_config,      \* swapchain configuration of RtRenderer.render_target
    apc,            \* position inside create_acceleration_structures / new_tlas
    queue,          \* one-shot commands submitted and not yet executed
    built,          \* acceleration-structure handles whose build has executed
    blasArg,        \* the blas slice handed to new_tlas (structure handles)
    geom,           \* new_blas inputs: [isz, nidx, nvert]
    geometries,     \* new_tlas: instance geometries pushed so far
    blas,           \* handle in the RtBlas returned by new_blas (0 = none yet)
    tlas,           \* handle in the RtTlas returned by new_tlas (0 = none yet)
    objects,        \* GPU objects of the builder: created and destroyed, in order
    bpc,            \* position inside GpuBuffer::new_initialized / the read-back
    items,          \* new_initialized input: K items, each size_of::<T>() bytes
    memory_types,   \* physical device: property flags of each memory type
    memory_type_bits, \* mem_reqs.memory_type_bits of the buffers created
    mem,            \* contents of the staging, destination and read-back buffers
    live,           \* buffers created and not destroyed
    allocLog,       \* memory_type_index of every allocate_memory call, in order
    sbt,            \* RtPipeline::new: device limits, group counts, table layout
    raster,         \* RasterRenderer: render target, colour, depth, framebuffers
    ubo             \* RtUniformBuffer<T>: mapped per-slot buffers and the last write

frameVars == <<pc, current_frame, fence, gpu, cmdbuf, render_target, canvas, rtLive,
               cvLive, descView, nextGen, ret, ticks, frameLog, ops, acq, pres, stale,
               destroyed, image_available, render_finished, presentq, shown,
               rt_config>>
accelVars == <<apc, queue, built, blasArg, geom, geometries, blas, tlas, objects>>
bufVars == <<bpc, items, memory_types, memory_type_bits, mem, live, allocLog>>
vars == <<frameVars, accelVars, bufVars, sbt, raster, ubo>>

----------------------------------------------------------------------------
(* ash wrappers: the raw VkResult becomes a Rust Result.  acquire_next_image *)
(* and queue_present both return Ok(.., suboptimal: bool) for SUCCESS and    *)
(* SUBOPTIMAL_KHR and Err(code) for everything else; draw_frame destructures *)
(* the Ok value as (next_image_idx, _) and Ok(_).                            *)
AshResult(r) ==
    IF r \in {"SUCCESS", "SUBOPTIMAL_KHR"}
    THEN [ok |-> TRUE, suboptimal |-> (r = "SUBOPTIMAL_KHR"), err |-> "none"]
    ELSE [ok |-> FALSE, suboptimal |-> FALSE, err |-> r]

NoRecording == [state |-> "initial", view |-> 0, canvas |-> 0, swap |-> 0]

\* physical_layer.supported_surface_formats: what the surface offers, in order.
SupportedSurfaceFormats ==
    << [format |-> "B8G8R8A8_SRGB", color_space |-> "SRGB_NONLINEAR"],
       [format |-> "B8G8R8A8_UNORM", color_space |-> "SRGB_NONLINEAR"] >>

\* RenderTarget::new, render_target.rs:64-134: the first supported surface format
\* with the requested format (and colour space, when one is given), else the
\* first one; the swapchain is created with the requested image usage, and image
\* views are made only when that usage holds COLOR_ATTACHMENT.
RenderTargetNew(image_usage, color_format, color_space) ==
    LET found == {k \in 1 .. Len(SupportedSurfaceFormats) :
                    /\ SupportedSurfaceFormats[k].format = color_format
                    /\ color_space # "None" =>
                          SupportedSurfaceFormats[k].color_space = color_space}
        surface_format ==
            IF found = {} THEN SupportedSurfaceFormats[1]
            ELSE SupportedSurfaceFormats[CHOOSE k \in found : \A j \in found : k <= j]
    IN  [image_usage |-> image_usage,
         format |-> surface_format.format,
         color_space |-> surface_format.color_space,
         image_views |-> "COLOR_ATTACHMENT" \in image_usage]

\* Faulty variant: the fences are created without FenceCreateFlags::SIGNALED.
InitFrame_Unsignaled ==
    /\ pc = "idle"
    /\ current_frame = 0
    /\ fence = [s \in Slots |-> FALSE]
    /\ gpu = <<>>
    /\ cmdbuf = [s \in Slots |-> NoRecording]
    /\ render_target = 1
    /\ canvas = 1
    /\ rtLive = {1}
    /\ cvLive = {1}
    /\ descView = [s \in Slots |-> 1]
    /\ nextGen = 2
    /\ ret = "none"
    /\ ticks = 0
    /\ frameLog = <<>>
    /\ ops = <<>>
    /\ acq = "none"
    /\ pres = "none"
    /\ stale = FALSE
    /\ destroyed = <<>>
    /\ image_available = [s \in Slots |-> FALSE]
    /\ render_finished = [s \in Slots |-> FALSE]
    /\ presentq = <<>>
    /\ shown = 0
    /\ rt_config = RenderTargetNew({"TRANSFER_DST", "COLOR_ATTACHMENT"}, "B8G8R8A8_UNORM",
                                   "None")

\* State after RtRenderer::new: fences created SIGNALED, generation 1 of the
\* swapchain and canvas live, every descriptor set written with canvas.views[f].
InitFrame ==
    /\ pc = "idle"
    /\ current_frame = 0
    /\ fence = [s \in Slots |-> TRUE]
    /\ gpu = <<>>
    /\ cmdbuf = [s \in Slots |-> NoRecording]
    /\ render_target = 1
    /\ canvas = 1
    /\ rtLive = {1}
    /\ cvLive = {1}
    /\ descView = [s \in Slots |-> 1]
    /\ nextGen = 2
    /\ ret = "none"
    /\ ticks = 0
    /\ frameLog = <<>>
    /\ ops = <<>>
    /\ acq = "none"
    /\ pres = "none"
    /\ stale = FALSE
    /\ destroyed = <<>>
    /\ image_available = [s \in Slots |-> FALSE]
    /\ render_finished = [s \in Slots |-> FALSE]
    /\ presentq = <<>>
    /\ shown = 0
    /\ rt_config = RenderTargetNew({"TRANSFER_DST", "COLOR_ATTACHMENT"}, "B8G8R8A8_UNORM",
                                   "None")

InitAccelIdle ==
    /\ apc = "off"
    /\ queue = <<>>
    /\ built = {}
    /\ blasArg = <<>>
    /\ geom = [isz |-> 1, nidx |-> 36, nvert |-> 24]
    /\ geometries = <<>>
    /\ blas = 0
    /\ tlas = 0
    /\ objects = [created |-> <<>>, destroyed |-> <<>>]

\* No buffer upload under way; a device with one device-local and one
\* host-visible, host-coherent memory type, both allowed for the buffers.
InitBufIdle ==
    /\ bpc = "off"
    /\ items = <<>>
    /\ memory_types = <<{"DEVICE_LOCAL"}, {"HOST_VISIBLE", "HOST_COHERENT"}>>
    /\ memory_type_bits = 3
    /\ mem = [b \in {"staging", "dest", "readback"} |-> <<>>]
    /\ live = {}
    /\ allocLog = <<>>

NoRegion == [size |-> 0, offset |-> 0, stride |-> 0]

\* Pipeline not under construction.
InitSbtIdle ==
    sbt = [pc |-> "off", shader_group_handle_size |-> 32,
           shader_group_handle_alignment |-> 32, shader_group_base_alignment |-> 64,
           hit_count |-> 1, miss_count |-> 1, handle_size |-> 0, sbt_size |-> 0,
           raygen |-> NoRegion, rayhit |-> NoRegion, raymiss |-> NoRegion,
           raycallable |-> NoRegion, cursor |-> 0, i |-> 0, written |-> <<>>,
           stage_count |-> 3, handles_len |-> 0, handles_ptr |-> 0]

NoAttachment == [from |-> 0, extent |-> <<0, 0>>]

\* No raster renderer.
InitRasterIdle ==
    raster = [pc |-> "off", variant |-> "examples", surface |-> <<0, 0>>,
              render_target |-> [gen |-> 0, extent |-> <<0, 0>>, live |-> FALSE],
              color |-> NoAttachment, depth |-> NoAttachment,
              frame_buffers |-> NoAttachment]

\* No uniform buffer.
InitUboIdle ==
    ubo = [pc |-> "off", size_of |-> 1, item |-> <<>>, descriptor_idx |-> 0,
           mapped |-> [s \in Slots |-> <<>>], before |-> [s \in Slots |-> <<>>],
           bytes_written |-> 0, overrun |-> "none"]

Init == InitFrame /\ InitAccelIdle /\ InitBufIdle /\ InitSbtIdle /\ InitRasterIdle /\ InitUboIdle

----------------------------------------------------------------------------
(* draw_frame, rt_renderer.rs:224-305 *)

\* Lines 243-263: locals captured, per-frame UBO written with set_mapped.
DrawBegin ==
    /\ pc = "idle"
    /\ ticks < MaxTicks
    /\ pc' = "wait"
    /\ ticks' = ticks + 1
    /\ frameLog' = Append(frameLog, current_frame)
    /\ ops' = <<"set_mapped">>
    /\ acq' = "none"
    /\ pres' = "none"
    /\ UNCHANGED <<current_frame, fence, gpu, cmdbuf, render_target, canvas, rtLive,
                   cvLive, descView, nextGen, ret, stale,
                   destroyed, image_available, render_finished, presentq, shown,
                   accelVars, bufVars, sbt, rt_config, raster, ubo>>

\* Faulty variant: draw_frame goes on to acquire without waiting on the slot's fence.
WaitFence_NoWait ==
    /\ pc = "wait"
    /\ pc' = "acquire"
    /\ ops' = Append(ops, "wait_for_fences")
    /\ UNCHANGED <<current_frame, fence, gpu, cmdbuf, render_target, canvas, rtLive,
                   cvLive, descView, nextGen, ret, ticks, frameLog, acq, pres, stale,
                   destroyed, image_available, render_finished, presentq, shown,
                   accelVars, bufVars, sbt, rt_config, raster, ubo>>

\* Faulty variant: the fence is reset right after the wait, before acquire.
WaitFence_ResetEarly ==
    /\ pc = "wait"
    /\ fence[current_frame]
    /\ fence' = [fence EXCEPT ![current_frame] = FALSE]
    /\ pc' = "acquire"
    /\ ops' = ops \o <<"wait_for_fences", "reset_fences">>
    /\ UNCHANGED <<current_frame, gpu, cmdbuf, render_target, canvas, rtLive,
                   cvLive, descView, nextGen, ret, ticks, frameLog, acq, pres, stale,
                   destroyed, image_available, render_finished, presentq, shown,
                   accelVars, bufVars, sbt, rt_config, raster, ubo>>

\* Line 266: wait_for_fences(&fences, true, u64::MAX) returns once the slot's
\* fence is signaled.
WaitFence ==
    /\ pc = "wait"
    /\ fence[current_frame]
    /\ pc' = "acquire"
    /\ ops' = Append(ops, "wait_for_fences")
    /\ UNCHANGED <<current_frame, fence, gpu, cmdbuf, render_target, canvas, rtLive,
                   cvLive, descView, nextGen, ret, ticks, frameLog, acq, pres, stale,
                   destroyed, image_available, render_finished, presentq, shown,
                   accelVars, bufVars, sbt, rt_config, raster, ubo>>

\* Faulty variant: an unknown acquire error skips the frame instead of panicking.
Acquire_IgnoreError(r) ==
    /\ pc = "acquire"
    /\ r = "ERROR_OUT_OF_DATE_KHR" => nextGen <= MaxGen
    /\ acq' = r
    /\ stale' = (stale \/ r # "SUCCESS")
    /\ ops' = Append(ops, "acquire_next_image")
    /\ image_available' = IF AshResult(r).ok
                          THEN [image_available EXCEPT ![current_frame] = TRUE]
                          ELSE image_available
    /\ LET res == AshResult(r) IN
         IF res.ok THEN /\ pc' = "record" /\ ret' = ret
         ELSE IF res.err = "ERROR_OUT_OF_DATE_KHR"
              THEN /\ pc' = "cleanup_wait" /\ ret' = "acquire"
              ELSE /\ pc' = "idle" /\ ret' = ret
    /\ UNCHANGED <<current_frame, fence, gpu, cmdbuf, render_target, canvas, rtLive,
                   cvLive, descView, nextGen, ticks, frameLog, pres,
                   destroyed, render_finished, presentq, shown,
                   accelVars, bufVars, sbt, rt_config, raster, ubo>>

\* Lines 268-276: acquire_next_image; Ok -> go on, Err(OUT_OF_DATE) ->
\* recreate_swap_chain(); return, any other Err -> panic.
Acquire(r) ==
    /\ pc = "acquire"
    /\ r = "ERROR_OUT_OF_DATE_KHR" => nextGen <= MaxGen
    /\ acq' = r
    /\ stale' = (stale \/ r # "SUCCESS")
    /\ ops' = Append(ops, "acquire_next_image")
    /\ image_available' = IF AshResult(r).ok
                          THEN [image_available EXCEPT ![current_frame] = TRUE]
                          ELSE image_available
    /\ LET res == AshResult(r) IN
         IF res.ok THEN /\ pc' = "record" /\ ret' = ret
         ELSE IF res.err = "ERROR_OUT_OF_DATE_KHR"
              THEN /\ pc' = "cleanup_wait" /\ ret' = "acquire"
              ELSE /\ pc' = "panic" /\ ret' = ret
    /\ UNCHANGED <<current_frame, fence, gpu, cmdbuf, render_target, canvas, rtLive,
                   cvLive, descView, nextGen, ticks, frameLog, pres,
                   destroyed, render_finished, presentq, shown,
                   accelVars, bufVars, sbt, rt_config, raster, ubo>>

\* Lines 278-288: reset_fences, reset_command_buffer, record_command_buffer.
\* The recording binds descriptor_sets[current_frame] and canvas.images[current_frame]
\* and blits into the swapchain image (record_command_buffer, lines 112-209).
ResetRecord ==
    /\ pc = "record"
    /\ fence' = [fence EXCEPT ![current_frame] = FALSE]
    /\ cmdbuf' = [cmdbuf EXCEPT ![current_frame] =
                    [state |-> "executable", view |-> descView[current_frame],
                     canvas |-> canvas, swap |-> render_target]]
    /\ ops' = ops \o <<"reset_fences", "reset_command_buffer", "record_command_buffer">>
    /\ pc' = "submit"
    /\ UNCHANGED <<current_frame, gpu, render_target, canvas, rtLive, cvLive, descView,
                   nextGen, ret, ticks, frameLog, acq, pres, stale,
                   destroyed, image_available, render_finished, presentq, shown,
                   accelVars, bufVars, sbt, rt_config, raster, ubo>>

\* Lines 289-291: queue_submit(graphics_queue, submit, in_flight_fences[current_frame]);
\* submit_info (lines 251-257) waits on image_available_sems[current_frame] and
\* signals render_finished_sems[current_frame].
Submit ==
    /\ pc = "submit"
    /\ gpu' = Append(gpu, [slot |-> current_frame, tick |-> ticks,
                           view |-> cmdbuf[current_frame].view,
                           canvas |-> cmdbuf[current_frame].canvas,
                           swap |-> cmdbuf[current_frame].swap,
                           wait |-> {current_frame}, signal |-> {current_frame},
                           fence |-> current_frame])
    /\ ops' = Append(ops, "queue_submit")
    /\ pc' = "present"
    /\ UNCHANGED <<current_frame, fence, cmdbuf, render_target, canvas, rtLive, cvLive,
                   descView, nextGen, ret, ticks, frameLog, acq, pres, stale,
                   destroyed, image_available, render_finished, presentq, shown,
                   accelVars, bufVars, sbt, rt_config, raster, ubo>>

\* Faulty variant: present_info carries no wait semaphore.
Present_NoWait(r) ==
    /\ pc = "present"
    /\ r = "ERROR_OUT_OF_DATE_KHR" => nextGen <= MaxGen
    /\ pres' = r
    /\ stale' = (stale \/ r # "SUCCESS")
    /\ ops' = Append(ops, "queue_present")
    /\ presentq' = IF r \in {"SUCCESS", "SUBOPTIMAL_KHR", "ERROR_OUT_OF_DATE_KHR"}
                   THEN Append(presentq, [tick |-> ticks, wait |-> {},
                                          show |-> AshResult(r).ok])
                   ELSE presentq
    /\ LET res == AshResult(r) IN
         IF res.ok
         THEN /\ pc' = "idle"
              /\ current_frame' = (current_frame + 1) % MAX_FRAMES_IN_FLIGHT
              /\ ret' = ret
         ELSE IF res.err \in {"ERROR_OUT_OF_DATE_KHR", "SUBOPTIMAL_KHR"}
              THEN /\ pc' = "cleanup_wait" /\ ret' = "present"
                   /\ current_frame' = current_frame
              ELSE /\ pc' = "panic" /\ ret' = ret /\ current_frame' = current_frame
    /\ UNCHANGED <<fence, gpu, cmdbuf, render_target, canvas, rtLive, cvLive, descView,
                   nextGen, ticks, frameLog, acq,
                   destroyed, image_available, render_finished, shown,
                   accelVars, bufVars, sbt, rt_config, raster, ubo>>

\* Lines 294-304: queue_present; Err(OUT_OF_DATE | SUBOPTIMAL) -> recreate_swap_chain,
\* other Err -> panic, Ok(_) -> nothing; then current_frame advances.  present_info
\* (lines 281-284) waits on render_finished_sems[current_frame]; an out-of-date
\* request shows nothing but its semaphore wait is still queued.
Present(r) ==
    /\ pc = "present"
    /\ r = "ERROR_OUT_OF_DATE_KHR" => nextGen <= MaxGen
    /\ pres' = r
    /\ stale' = (stale \/ r # "SUCCESS")
    /\ ops' = Append(ops, "queue_present")
    /\ presentq' = IF r \in {"SUCCESS", "SUBOPTIMAL_KHR", "ERROR_OUT_OF_DATE_KHR"}
                   THEN Append(presentq, [tick |-> ticks, wait |-> {current_frame},
                                          show |-> AshResult(r).ok])
                   ELSE presentq
    /\ LET res == AshResult(r) IN
         IF res.ok
         THEN /\ pc' = "idle"
              /\ current_frame' = (current_frame + 1) % MAX_FRAMES_IN_FLIGHT
              /\ ret' = ret
         ELSE IF res.err \in {"ERROR_OUT_OF_DATE_KHR", "SUBOPTIMAL_KHR"}
              THEN /\ pc' = "cleanup_wait" /\ ret' = "present"
                   /\ current_frame' = current_frame
              ELSE /\ pc' = "panic" /\ ret' = ret /\ current_frame' = current_frame
    /\ UNCHANGED <<fence, gpu, cmdbuf, render_target, canvas, rtLive, cvLive, descView,
                   nextGen, ticks, frameLog, acq,
                   destroyed, image_available, render_finished, shown,
                   accelVars, bufVars, sbt, rt_config, raster, ubo>>

\* The device runs the oldest submitted frame once its wait semaphores are
\* signaled (consuming them), then signals its semaphores and its fence.
GpuComplete ==
    /\ gpu # <<>>
    /\ \A s \in Head(gpu).wait : image_available[s]
    /\ image_available' = [s \in Slots |-> image_available[s] /\ s \notin Head(gpu).wait]
    /\ render_finished' = [s \in Slots |-> render_finished[s] \/ s \in Head(gpu).signal]
    /\ fence' = [fence EXCEPT ![Head(gpu).fence] = TRUE]
    /\ gpu' = Tail(gpu)
    /\ UNCHANGED <<pc, current_frame, cmdbuf, render_target, canvas, rtLive, cvLive,
                   descView, nextGen, ret, ticks, frameLog, ops, acq, pres, stale,
                   destroyed, presentq, shown,
                   accelVars, bufVars, sbt, rt_config, raster, ubo>>

\* The presentation engine takes the oldest present request once its wait
\* semaphores are signaled (consuming them) and puts the frame on screen.
PresentExec ==
    /\ presentq # <<>>
    /\ \A s \in Head(presentq).wait : render_finished[s]
    /\ render_finished' = [s \in Slots |->
                             render_finished[s] /\ s \notin Head(presentq).wait]
    /\ shown' = IF Head(presentq).show THEN Head(presentq).tick ELSE shown
    /\ presentq' = Tail(presentq)
    /\ UNCHANGED <<pc, current_frame, fence, gpu, cmdbuf, render_target, canvas, rtLive,
                   cvLive, descView, nextGen, ret, ticks, frameLog, ops, acq, pres,
                   stale, destroyed, image_available, accelVars, bufVars, sbt,
                   rt_config, raster, ubo>>

----------------------------------------------------------------------------
(* recreate_swap_chain / cleanup_swap_chain / Drop, rt_renderer.rs:211-222, 351-370 *)

\* Faulty variant: cleanup_swap_chain destroys without draining the device first.
CleanupWaitIdle_NoDrain ==
    /\ pc = "cleanup_wait"
    /\ pc' = "cleanup_destroy"
    /\ ops' = Append(ops, "device_wait_idle")
    /\ UNCHANGED <<current_frame, fence, gpu, cmdbuf, render_target, canvas, rtLive,
                   cvLive, descView, nextGen, ret, ticks, frameLog, acq, pres, stale,
                   destroyed, image_available, render_finished, presentq, shown,
                   accelVars, bufVars, sbt, rt_config, raster, ubo>>

\* Line 219: device_wait_idle returns once the device has no unfinished work.
CleanupWaitIdle ==
    /\ pc = "cleanup_wait"
    /\ gpu = <<>>
    /\ pc' = "cleanup_destroy"
    /\ ops' = Append(ops, "device_wait_idle")
    /\ UNCHANGED <<current_frame, fence, gpu, cmdbuf, render_target, canvas, rtLive,
                   cvLive, descView, nextGen, ret, ticks, frameLog, acq, pres, stale,
                   destroyed, image_available, render_finished, presentq, shown,
                   accelVars, bufVars, sbt, rt_config, raster, ubo>>

\* Faulty variant: cleanup_swap_chain forgets canvas.destroy.
CleanupDestroy_LeakCanvas ==
    /\ pc = "cleanup_destroy"
    /\ rtLive' = rtLive \ {render_target}
    /\ cvLive' = cvLive
    /\ destroyed' = destroyed \o <<<<"render_target", render_target>>>>
    /\ ops' = Append(ops, "destroy")
    /\ pc' = IF ret = "drop" THEN "dropped" ELSE "recreate_new"
    /\ UNCHANGED <<current_frame, fence, gpu, cmdbuf, render_target, canvas, descView,
                   nextGen, ret, ticks, frameLog, acq, pres, stale,
                   image_available, render_finished, presentq, shown,
                   accelVars, bufVars, sbt, rt_config, raster, ubo>>

\* Lines 220-221: render_target.destroy, canvas.destroy.
CleanupDestroy ==
    /\ pc = "cleanup_destroy"
    /\ rtLive' = rtLive \ {render_target}
    /\ cvLive' = cvLive \ {canvas}
    /\ destroyed' = destroyed \o <<<<"render_target", render_target>>,
                                   <<"canvas", canvas>>>>
    /\ ops' = Append(ops, "destroy")
    /\ pc' = IF ret = "drop" THEN "dropped" ELSE "recreate_new"
    /\ UNCHANGED <<current_frame, fence, gpu, cmdbuf, render_target, canvas, descView,
                   nextGen, ret, ticks, frameLog, acq, pres, stale,
                   image_available, render_finished, presentq, shown,
                   accelVars, bufVars, sbt, rt_config, raster, ubo>>

\* Faulty variant: the out-of-date arm of acquire lacks its `return` and draws anyway.
RecreateNew_NoReturn ==
    /\ pc = "recreate_new"
    /\ render_target' = nextGen
    /\ canvas' = nextGen
    /\ rtLive' = rtLive \cup {nextGen}
    /\ cvLive' = cvLive \cup {nextGen}
    /\ nextGen' = nextGen + 1
    /\ rt_config' = RenderTargetNew({"TRANSFER_DST"}, "B8G8R8A8_UNORM", "None")
    /\ ops' = Append(ops, "create")
    /\ pc' = IF ret = "present" THEN "idle" ELSE "record"
    /\ current_frame' = IF ret = "present"
                        THEN (current_frame + 1) % MAX_FRAMES_IN_FLIGHT
                        ELSE current_frame
    /\ UNCHANGED <<fence, gpu, cmdbuf, descView, ret, ticks, frameLog, acq, pres,
                   stale,
                   destroyed, image_available, render_finished, presentq, shown,
                   accelVars, bufVars, sbt, raster, ubo>>

\* Faulty variant: the present arm returns right after recreate_swap_chain as well.
RecreateNew_ReturnAlways ==
    /\ pc = "recreate_new"
    /\ render_target' = nextGen
    /\ canvas' = nextGen
    /\ rtLive' = rtLive \cup {nextGen}
    /\ cvLive' = cvLive \cup {nextGen}
    /\ nextGen' = nextGen + 1
    /\ rt_config' = RenderTargetNew({"TRANSFER_DST"}, "B8G8R8A8_UNORM", "None")
    /\ ops' = Append(ops, "create")
    /\ pc' = "idle"
    /\ current_frame' = current_frame
    /\ UNCHANGED <<fence, gpu, cmdbuf, descView, ret, ticks, frameLog, acq, pres,
                   stale,
                   destroyed, image_available, render_finished, presentq, shown,
                   accelVars, bufVars, sbt, raster, ubo>>

\* Lines 213-215: RenderTarget::new, RtCanvas::new; then back in draw_frame either
\* `return` (line 273) or fall through to line 304.
RecreateNew ==
    /\ pc = "recreate_new"
    /\ render_target' = nextGen
    /\ canvas' = nextGen
    /\ rtLive' = rtLive \cup {nextGen}
    /\ cvLive' = cvLive \cup {nextGen}
    /\ nextGen' = nextGen + 1
    /\ rt_config' = RenderTargetNew({"TRANSFER_DST"}, "B8G8R8A8_UNORM", "None")
    /\ ops' = Append(ops, "create")
    /\ pc' = "idle"
    /\ current_frame' = IF ret = "present"
                        THEN (current_frame + 1) % MAX_FRAMES_IN_FLIGHT
                        ELSE current_frame
    /\ UNCHANGED <<fence, gpu, cmdbuf, descView, ret, ticks, frameLog, acq, pres,
                   stale,
                   destroyed, image_available, render_finished, presentq, shown,
                   accelVars, bufVars, sbt, raster, ubo>>

\* run_blocking exits the loop and the renderer is dropped: Drop starts with
\* cleanup_swap_chain (line 353).
Drop ==
    /\ pc = "idle"
    /\ pc' = "cleanup_wait"
    /\ ret' = "drop"
    /\ UNCHANGED <<current_frame, fence, gpu, cmdbuf, render_target, canvas, rtLive,
                   cvLive, descView, nextGen, ticks, frameLog, ops, acq, pres, stale,
                   destroyed, image_available, render_finished, presentq, shown,
                   accelVars, bufVars, sbt, rt_config, raster, ubo>>

Next ==
    \/ DrawBegin
    \/ WaitFence
    \/ \E r \in VkResults : Acquire(r)
    \/ ResetRecord
    \/ Submit
    \/ \E r \in VkResults : Present(r)
    \/ GpuComplete
    \/ PresentExec
    \/ CleanupWaitIdle
    \/ CleanupDestroy
    \/ RecreateNew
    \/ Drop

Spec == Init /\ [][Next]_vars

\* recreate_swap_chain called on its own (not from a draw_frame arm), lines 211-216.
RecreateCall ==
    /\ pc = "idle"
    /\ nextGen <= MaxGen
    /\ pc' = "cleanup_wait"
    /\ ret' = "direct"
    /\ UNCHANGED <<current_frame, fence, gpu, cmdbuf, render_target, canvas, rtLive,
                   cvLive, descView, nextGen, ticks, frameLog, ops, acq, pres, stale,
                   destroyed, image_available, render_finished, presentq, shown,
                   accelVars, bufVars, sbt, rt_config, raster, ubo>>

NextRecreate == Next \/ RecreateCall
SpecRecreate == Init /\ [][NextRecreate]_vars

\* The device eventually retires submitted work, and a host thread blocked in
\* wait_for_fences resumes once the fence is signaled (only the host resets it).
SpecLive == Init /\ [][Next]_vars /\ WF_vars(GpuComplete) /\ WF_vars(WaitFence)

----------------------------------------------------------------------------
(* Acceleration structures, src/renderer/rt_accel.rs.  Every device command  *)
(* goes through begin/end_single_time_commands: submit, then queue_wait_idle. *)

NullHandle == 0
BlasHandle == 1     \* handle create_acceleration_structure gives new_blas
StrayHandle == BlasHandle + 1   \* a structure that was created and never built
TlasHandle == StrayHandle + 1   \* handle create_acceleration_structure gives new_tlas

\* get_acceleration_structure_device_address of a valid handle.
AddrOf(h) == 16 * h
\* The same call on VK_NULL_HANDLE is invalid usage: the driver may hand back
\* anything.
GarbageAddr == AddrOf(TlasHandle) + 16
DeviceAddresses(h) == IF h = NullHandle THEN {0, GarbageAddr} ELSE {AddrOf(h)}

\* Faulty variant: end_single_time_commands returns right after queue_submit.
QueueWaitIdle_NoWait == TRUE

\* single_time.rs:29, queue_wait_idle(graphics_queue): returns once the queue
\* has executed everything submitted to it.
QueueWaitIdle == queue = <<>>

\* new_blas lines 34-36: GpuBuffer::new_initialized(indices) up to the submit of
\* its staging copy.
NewBlasIndexUpload ==
    /\ apc = "start"
    /\ queue' = Append(queue, [kind |-> "copy", dst |-> "index", refs |-> <<>>, primitive_count |-> 0])
    /\ apc' = "blas_idx_wait"
    /\ objects' = [objects EXCEPT !.created = @ \o <<<<"blas", "index_buffer", 0>>>>]
    /\ UNCHANGED <<built, blasArg, geom, geometries, blas, tlas, frameVars, bufVars, sbt, raster, ubo>>

\* new_blas lines 40-43: the index copy has been waited for; upload the vertices.
NewBlasVertexUpload ==
    /\ apc = "blas_idx_wait"
    /\ QueueWaitIdle
    /\ queue' = Append(queue, [kind |-> "copy", dst |-> "vertex", refs |-> <<>>, primitive_count |-> 0])
    /\ apc' = "blas_vtx_wait"
    /\ objects' = [objects EXCEPT !.created = @ \o <<<<"blas", "vertex_buffer", 0>>>>]
    /\ UNCHANGED <<built, blasArg, geom, geometries, blas, tlas, frameVars, bufVars, sbt, raster, ubo>>

\* new_blas lines 48-123: assert on the vertex count, index type from
\* size_of::<T>(), size query, scratch and storage buffers, structure created,
\* build recorded and submitted.
NewBlasBuild ==
    /\ apc = "blas_vtx_wait"
    /\ QueueWaitIdle
    /\ IF geom.nvert % 3 # 0 \/ geom.isz \notin {1, 2, 4}
       THEN /\ apc' = "panic"
            /\ queue' = queue
            /\ objects' = objects
       ELSE /\ apc' = "blas_build_wait"
            /\ queue' = Append(queue, [kind |-> "build_blas", dst |-> BlasHandle,
                                       refs |-> <<>>,
                                       primitive_count |-> geom.nidx \div 3])
            /\ objects' = [objects EXCEPT !.created = @ \o
                              <<<<"blas", "scratch_buf", 0>>, <<"blas", "accel_buf", 0>>,
                                <<"blas", "acceleration_structure", 0>>>>]
    /\ UNCHANGED <<built, blasArg, geom, geometries, blas, tlas, frameVars, bufVars, sbt, raster, ubo>>

\* new_blas lines 123-130 and create_acceleration_structures lines 272-274: the
\* build has been waited for, RtBlas is returned and handed to new_tlas as &[&blas].
NewBlasReturn ==
    /\ apc = "blas_build_wait"
    /\ QueueWaitIdle
    /\ blas' = BlasHandle
    /\ blasArg' = <<BlasHandle>>
    /\ geometries' = <<>>
    /\ apc' = "tlas_loop"
    /\ UNCHANGED <<queue, built, geom, tlas, objects,
                   frameVars, bufVars, sbt, raster, ubo>>

\* new_tlas lines 138-160, one iteration: device address of b, instance record,
\* GpuBuffer::new_initialized(&blas_instances) up to the submit of its copy.
NewTlasInstanceUpload ==
    /\ apc = "tlas_loop"
    /\ Len(geometries) < Len(blasArg)
    /\ \E a \in DeviceAddresses(blasArg[Len(geometries) + 1]) :
          geometries' = Append(geometries,
                               [handle |-> blasArg[Len(geometries) + 1],
                                acceleration_structure_reference |-> a,
                                mask |-> 255, flags |-> 1])
    /\ queue' = Append(queue, [kind |-> "copy", dst |-> "instance", refs |-> <<>>, primitive_count |-> 0])
    /\ apc' = "tlas_inst_wait"
    /\ objects' = [objects EXCEPT !.created =
                      Append(@, <<"tlas", "blas_instance_buf", Len(geometries) + 1>>)]
    /\ UNCHANGED <<built, blasArg, geom, blas, tlas, frameVars, bufVars, sbt, raster, ubo>>

\* new_tlas lines 160-173: the instance copy has been waited for, the geometry
\* is pushed and the loop goes on.
NewTlasInstanceDone ==
    /\ apc = "tlas_inst_wait"
    /\ QueueWaitIdle
    /\ apc' = "tlas_loop"
    /\ UNCHANGED <<queue, built, blasArg, geom, geometries, blas, tlas, objects,
                   frameVars, bufVars, sbt, raster, ubo>>

\* new_tlas lines 175-223: size query, scratch and storage buffers, structure
\* created, build recorded and submitted: the geometries pushed by the loop, the
\* size query's max_primitive_counts [geometries.len()] and one build range with
\* primitive_count = blas.len().  Line 207 calls
\* tlas_build_info.dst_acceleration_structure(tlas) and drops the value the
\* setter returns, so the recorded build keeps the default (null) destination.
NewTlasBuild ==
    /\ apc = "tlas_loop"
    /\ Len(geometries) = Len(blasArg)
    /\ queue' = Append(queue, [kind |-> "build_tlas", dst |-> NullHandle,
                               refs |-> geometries,
                               primitive_count |-> Len(blasArg),
                               max_primitive_counts |-> <<Len(geometries)>>,
                               build_range_infos |-> <<Len(blasArg)>>])
    /\ objects' = [objects EXCEPT !.created = @ \o
                      <<<<"tlas", "scratch_buf", 0>>, <<"tlas", "accel_buf", 0>>,
                        <<"tlas", "acceleration_structure", 0>>>>]
    /\ apc' = "tlas_build_wait"
    /\ UNCHANGED <<built, blasArg, geom, geometries, blas, tlas, frameVars, bufVars, sbt, raster, ubo>>

\* new_tlas lines 223-230: the build has been waited for, RtTlas is returned.
NewTlasReturn ==
    /\ apc = "tlas_build_wait"
    /\ QueueWaitIdle
    /\ tlas' = TlasHandle
    /\ apc' = "done"
    /\ UNCHANGED <<queue, built, blasArg, geom, geometries, blas, objects, frameVars, bufVars, sbt,
                   raster, ubo>>

\* Shutdown: the renderer's Drop calls RtAccel::destroy on the tlas and the blas
\* (rt_accel.rs:233-236: accel_buf.destroy, scratch_buf.destroy) and later
\* destroys the logical device.
AccelShutdown ==
    /\ apc = "done"
    /\ QueueWaitIdle
    /\ objects' = [objects EXCEPT !.destroyed = @ \o
                      <<<<"tlas", "accel_buf", 0>>, <<"tlas", "scratch_buf", 0>>,
                        <<"blas", "accel_buf", 0>>, <<"blas", "scratch_buf", 0>>>>]
    /\ apc' = "shutdown"
    /\ UNCHANGED <<queue, built, blasArg, geom, geometries, blas, tlas, frameVars, bufVars,
                   sbt, raster, ubo>>

----------------------------------------------------------------------------
(* Buffer memory, renderlib/src/gpu_buffer.rs *)

Byte == {0, 1}

\* Contents of freshly allocated (or freed) memory: unspecified bytes.
Garbage(n, b) == [i \in 1 .. n |-> b]

RECURSIVE Flatten(_)
\* The bytes of a slice of items, in memory order.
Flatten(its) == IF its = <<>> THEN <<>> ELSE Head(its) \o Flatten(Tail(its))

\* mem::size_of::<T>() of the items of a non-empty slice.
SizeOf(its) == Len(its[1])

\* Faulty variant: the count is taken as a number of bytes.
copy_from_nonoverlapping_u8(dst, src, count) ==
    LET bytes == SubSeq(Flatten(src), 1, count)
    IN  [i \in 1 .. Len(dst) |-> IF i <= Len(bytes) THEN bytes[i] ELSE dst[i]]

\* ptr::copy_from_nonoverlapping on *mut T: `count` is a number of elements of T,
\* so count * size_of::<T>() bytes are copied to the start of dst.
copy_from_nonoverlapping(dst, src, count) ==
    LET bytes == Flatten(SubSeq(src, 1, count))
    IN  [i \in 1 .. Len(dst) |-> IF i <= Len(bytes) THEN bytes[i] ELSE dst[i]]

\* `x as u32` of an i64, kept as two 16-bit halves.
AsU32(x) == [hi |-> (x \div 65536) % 65536, lo |-> x % 65536]

\* ((1 << i) & memory_type_bits) > 0
BitSet(i, bits) == (bits \div (2 ^ i)) % 2 = 1

\* gpu_buffer.rs:8-31 (and staging_buf.rs:33-56): idx starts at -1, the first
\* matching type sets it, and the final test is `idx >= -1`.
find_buf_index(types, mem_props, bits) ==
    LET match == {i \in 0 .. (Len(types) - 1) : BitSet(i, bits) /\ mem_props \subseteq types[i + 1]}
        idx == IF match = {} THEN -1
               ELSE CHOOSE i \in match : \A j \in match : i <= j
    IN  IF idx >= -1 THEN [ok |-> TRUE, val |-> AsU32(idx)]
        ELSE [ok |-> FALSE, val |-> AsU32(0)]

\* The memory_type_index names one of the device's memory types.
ValidIndex(v) == v.hi = 0 /\ v.lo < Len(memory_types)

\* cmd_copy_buffer executed by the device: the first `size` bytes of dst become
\* those of src.
CopyBytes(src, dst, size) ==
    [i \in 1 .. Len(dst) |-> IF i <= size THEN src[i] ELSE dst[i]]

\* The device executes the oldest submitted one-shot command.  A copy out of a
\* buffer that has been destroyed meanwhile reads freed memory: any bytes.
GpuExec ==
    /\ queue # <<>>
    /\ IF Head(queue).kind = "copy_buffer"
       THEN LET c == Head(queue) IN
            IF c.src \in live
            THEN mem' = [mem EXCEPT ![c.dst] = CopyBytes(mem[c.src], mem[c.dst], c.size)]
            ELSE \E b \in Byte : mem' = [mem EXCEPT ![c.dst] = Garbage(Len(mem[c.dst]), b)]
       ELSE mem' = mem
    /\ built' = IF Head(queue).kind \in {"build_blas", "build_tlas"}
                   /\ Head(queue).dst # NullHandle
                THEN built \cup {Head(queue).dst}
                ELSE built
    /\ queue' = Tail(queue)
    /\ UNCHANGED <<apc, blasArg, geom, geometries, blas, tlas, objects, frameVars, bpc,
                   items,
                   memory_types, memory_type_bits, live, allocLog, sbt, raster, ubo>>

\* create_acceleration_structures, with new_blas taken over the index widths and
\* array lengths a caller of the generic new_blas<T> can pass.
InitAccel ==
    /\ InitFrame
    /\ apc = "start"
    /\ queue = <<>>
    /\ built = {}
    /\ blasArg = <<>>
    /\ geom \in [isz : {1, 2, 4, 8}, nidx : {3, 36}, nvert : {9, 24, 25}]
    /\ geometries = <<>>
    /\ blas = 0
    /\ tlas = 0
    /\ objects = [created |-> <<>>, destroyed |-> <<>>]
    /\ InitBufIdle
    /\ InitSbtIdle
    /\ InitRasterIdle
    /\ InitUboIdle

NextAccel ==
    \/ NewBlasIndexUpload
    \/ NewBlasVertexUpload
    \/ NewBlasBuild
    \/ NewBlasReturn
    \/ NewTlasInstanceUpload
    \/ NewTlasInstanceDone
    \/ NewTlasBuild
    \/ NewTlasReturn
    \/ AccelShutdown
    \/ GpuExec

SpecAccel == InitAccel /\ [][NextAccel]_vars

\* new_tlas called on its own with a slice of 1..MaxBlasRefs RtBlas values whose
\* handle is null, built (BlasHandle) or created and never built (StrayHandle).
BlasSlices == UNION {[1 .. n -> {NullHandle, BlasHandle, StrayHandle}] : n \in 1 .. MaxBlasRefs}

InitTlas ==
    /\ InitFrame
    /\ apc = "tlas_loop"
    /\ queue = <<>>
    /\ built = {BlasHandle}
    /\ blasArg \in BlasSlices
    /\ geom = [isz |-> 1, nidx |-> 36, nvert |-> 24]
    /\ geometries = <<>>
    /\ blas = BlasHandle
    /\ tlas = 0
    /\ objects = [created |-> <<>>, destroyed |-> <<>>]
    /\ InitBufIdle
    /\ InitSbtIdle
    /\ InitRasterIdle
    /\ InitUboIdle

NextTlas ==
    \/ NewTlasInstanceUpload
    \/ NewTlasInstanceDone
    \/ NewTlasBuild
    \/ NewTlasReturn
    \/ GpuExec

SpecTlas == InitTlas /\ [][NextTlas]_vars

----------------------------------------------------------------------------
(* GpuBuffer::new_initialized, gpu_buffer.rs:115-150, and a read-back of the
   destination through copy_buffer *)

HostProps == {"HOST_VISIBLE", "HOST_COHERENT"}
DeviceProps == {"DEVICE_LOCAL"}
data_size == SizeOf(items) * Len(items)

\* Lines 119-136: create_buffer for the staging buffer (find_buf_index(..).unwrap(),
\* allocate_memory(..).unwrap()), map_memory, copy the items in, unmap_memory.
\* allocate_memory with an index that names no memory type does not yield memory:
\* the driver rejects or faults and the process stops.
NewInitStage ==
    /\ bpc = "start"
    /\ LET r == find_buf_index(memory_types, HostProps, memory_type_bits) IN
         IF ~r.ok
         THEN /\ bpc' = "panic"
              /\ UNCHANGED <<mem, live, allocLog, sbt, rt_config, raster, ubo>>
         ELSE /\ allocLog' = Append(allocLog, r.val)
              /\ IF ~ValidIndex(r.val)
                 THEN /\ bpc' = "panic"
                      /\ UNCHANGED <<mem, live, sbt, rt_config, raster, ubo>>
                 ELSE /\ \E b \in Byte :
                            mem' = [mem EXCEPT !["staging"] =
                                      copy_from_nonoverlapping(Garbage(data_size, b), items,
                                                               Len(items))]
                      /\ live' = live \cup {"staging"}
                      /\ bpc' = "staged"
    /\ UNCHANGED <<items, memory_types, memory_type_bits, frameVars, accelVars, sbt, raster, ubo>>

\* Lines 138-140: GpuBuffer::new for the destination (DEVICE_LOCAL), then
\* copy_buffer up to the queue_submit of end_single_time_commands (single_time.rs:28).
NewInitSubmit ==
    /\ bpc = "staged"
    /\ LET r == find_buf_index(memory_types, DeviceProps, memory_type_bits) IN
         IF ~r.ok
         THEN /\ bpc' = "panic"
              /\ UNCHANGED <<mem, live, allocLog, queue, sbt, rt_config, raster, ubo>>
         ELSE /\ allocLog' = Append(allocLog, r.val)
              /\ IF ~ValidIndex(r.val)
                 THEN /\ bpc' = "panic"
                      /\ UNCHANGED <<mem, live, queue, sbt, rt_config, raster, ubo>>
                 ELSE /\ \E b \in Byte :
                            mem' = [mem EXCEPT !["dest"] = Garbage(data_size, b)]
                      /\ live' = live \cup {"dest"}
                      /\ queue' = Append(queue, [kind |-> "copy_buffer", src |-> "staging",
                                                 dst |-> "dest", size |-> data_size])
                      /\ bpc' = "copy_wait"
    /\ UNCHANGED <<items, memory_types, memory_type_bits, frameVars, apc, built, blasArg,
                   geom, geometries, blas, tlas, objects, sbt, raster, ubo>>

\* single_time.rs:29-30 and gpu_buffer.rs:141-149: queue_wait_idle returns, the
\* staging buffer is destroyed and its memory freed, the GpuBuffer is returned.
NewInitReturn ==
    /\ bpc = "copy_wait"
    /\ QueueWaitIdle
    /\ live' = live \ {"staging"}
    /\ bpc' = "returned"
    /\ UNCHANGED <<items, memory_types, memory_type_bits, mem, allocLog, frameVars,
                   accelVars, sbt, raster, ubo>>

\* Read-back: a host-visible buffer from create_buffer, then copy_buffer
\* (gpu_buffer.rs:33-49) from the destination into it, up to its queue_submit.
ReadBackSubmit ==
    /\ bpc = "returned"
    /\ LET r == find_buf_index(memory_types, HostProps, memory_type_bits) IN
         /\ r.ok /\ ValidIndex(r.val)
         /\ allocLog' = Append(allocLog, r.val)
    /\ \E b \in Byte : mem' = [mem EXCEPT !["readback"] = Garbage(data_size, b)]
    /\ live' = live \cup {"readback"}
    /\ queue' = Append(queue, [kind |-> "copy_buffer", src |-> "dest", dst |-> "readback",
                               size |-> data_size])
    /\ bpc' = "rb_wait"
    /\ UNCHANGED <<items, memory_types, memory_type_bits, frameVars, apc, built, blasArg,
                   geom, geometries, blas, tlas, objects, sbt, raster, ubo>>

\* single_time.rs:29: queue_wait_idle of the read-back copy returns.
ReadBackDone ==
    /\ bpc = "rb_wait"
    /\ QueueWaitIdle
    /\ bpc' = "done"
    /\ UNCHANGED <<items, memory_types, memory_type_bits, mem, live, allocLog, frameVars,
                   accelVars, sbt, raster, ubo>>

\* Arrays of 1..MaxItems items of a one-byte or a two-byte type.
ItemArrays == UNION {[1 .. k -> [1 .. sz -> Byte]] : k \in 1 .. MaxItems, sz \in {1, 2}}

\* Devices with separate or unified memory, or without a coherent host type.
DeviceMemoryTypes ==
    { <<{"DEVICE_LOCAL"}, {"HOST_VISIBLE", "HOST_COHERENT"}>>,
      <<{"DEVICE_LOCAL", "HOST_VISIBLE", "HOST_COHERENT"}>>,
      <<{"DEVICE_LOCAL"}, {"HOST_VISIBLE"}>> }

InitBuf ==
    /\ InitFrame
    /\ InitAccelIdle
    /\ bpc = "start"
    /\ items \in ItemArrays
    /\ memory_types \in DeviceMemoryTypes
    /\ memory_type_bits \in 1 .. 3
    /\ mem = [b \in {"staging", "dest", "readback"} |-> <<>>]
    /\ live = {}
    /\ allocLog = <<>>
    /\ InitSbtIdle
    /\ InitRasterIdle
    /\ InitUboIdle

NextBuf ==
    \/ NewInitStage
    \/ NewInitSubmit
    \/ NewInitReturn
    \/ ReadBackSubmit
    \/ ReadBackDone
    \/ GpuExec

SpecBuf == InitBuf /\ [][NextBuf]_vars

----------------------------------------------------------------------------
(* Shader binding table layout, rt_pipeline.rs:39-42 and 145-221 *)

RECURSIVE BitAnd(_, _)
\* a & b on unsigned integers.
BitAnd(a, b) ==
    IF a = 0 \/ b = 0 THEN 0
    ELSE (a % 2) * (b % 2) + 2 * BitAnd(a \div 2, b \div 2)

\* Faulty variant: masks without adding align - 1 first (rounds down).
align_u32_down(val, align) == val - BitAnd(val, align - 1)

\* (val + (align - 1)) & !(align - 1); x & !m clears in x the bits set in m.
align_u32(val, align) == (val + (align - 1)) - BitAnd(val + (align - 1), align - 1)

\* Faulty variant: the raygen region is given the handle stride of the other regions.
SbtLayout_StrideHandle ==
    /\ sbt.pc = "props"
    /\ LET handle_size == align_u32(sbt.shader_group_handle_size,
                                    sbt.shader_group_handle_alignment)
           raygen_group_size == align_u32(handle_size, sbt.shader_group_base_alignment)
           rmiss_group_size == align_u32(handle_size * sbt.miss_count,
                                         sbt.shader_group_base_alignment)
           rhit_group_size == align_u32(handle_size * sbt.hit_count,
                                        sbt.shader_group_base_alignment)
           rcall_group_size == align_u32(handle_size * 0, sbt.shader_group_base_alignment)
           raygen_handle_stride == handle_size
       IN sbt' = [sbt EXCEPT
            !.pc = "copy_raygen",
            !.handle_size = handle_size,
            !.sbt_size = raygen_group_size + rmiss_group_size + rhit_group_size
                         + rcall_group_size,
            !.raygen = [size |-> raygen_group_size, offset |-> 0,
                        stride |-> raygen_handle_stride],
            !.rayhit = [size |-> rhit_group_size, offset |-> raygen_group_size,
                        stride |-> handle_size],
            !.raymiss = [size |-> rmiss_group_size,
                         offset |-> raygen_group_size + rhit_group_size,
                         stride |-> handle_size],
            !.raycallable = NoRegion]
    /\ UNCHANGED <<frameVars, accelVars, bufVars, raster, ubo>>

\* Faulty variant: the miss region is placed right after the raygen region.
SbtLayout_MissAfterRaygen ==
    /\ sbt.pc = "props"
    /\ LET handle_size == align_u32(sbt.shader_group_handle_size,
                                    sbt.shader_group_handle_alignment)
           raygen_group_size == align_u32(handle_size, sbt.shader_group_base_alignment)
           rmiss_group_size == align_u32(handle_size * sbt.miss_count,
                                         sbt.shader_group_base_alignment)
           rhit_group_size == align_u32(handle_size * sbt.hit_count,
                                        sbt.shader_group_base_alignment)
           rcall_group_size == align_u32(handle_size * 0, sbt.shader_group_base_alignment)
           raygen_handle_stride == raygen_group_size
       IN sbt' = [sbt EXCEPT
            !.pc = "copy_raygen",
            !.handle_size = handle_size,
            !.sbt_size = raygen_group_size + rmiss_group_size + rhit_group_size
                         + rcall_group_size,
            !.raygen = [size |-> raygen_group_size, offset |-> 0,
                        stride |-> raygen_handle_stride],
            !.rayhit = [size |-> rhit_group_size, offset |-> raygen_group_size,
                        stride |-> handle_size],
            !.raymiss = [size |-> rmiss_group_size,
                         offset |-> raygen_group_size,
                         stride |-> handle_size],
            !.raycallable = NoRegion]
    /\ UNCHANGED <<frameVars, accelVars, bufVars, raster, ubo>>

\* Lines 145-187: handle_size, the four group sizes, sbt_size and the regions.
\* The group counts RAYHIT_COUNT and RAYMISS_COUNT are taken as inputs;
\* RAYCALL_COUNT is 0 and the callable region is empty.
SbtLayout ==
    /\ sbt.pc = "props"
    /\ LET handle_size == align_u32(sbt.shader_group_handle_size,
                                    sbt.shader_group_handle_alignment)
           raygen_group_size == align_u32(handle_size, sbt.shader_group_base_alignment)
           rmiss_group_size == align_u32(handle_size * sbt.miss_count,
                                         sbt.shader_group_base_alignment)
           rhit_group_size == align_u32(handle_size * sbt.hit_count,
                                        sbt.shader_group_base_alignment)
           rcall_group_size == align_u32(handle_size * 0, sbt.shader_group_base_alignment)
           raygen_handle_stride == raygen_group_size
       IN sbt' = [sbt EXCEPT
            !.pc = "copy_raygen",
            !.handle_size = handle_size,
            !.sbt_size = raygen_group_size + rmiss_group_size + rhit_group_size
                         + rcall_group_size,
            !.raygen = [size |-> raygen_group_size, offset |-> 0,
                        stride |-> raygen_handle_stride],
            !.rayhit = [size |-> rhit_group_size, offset |-> raygen_group_size,
                        stride |-> handle_size],
            !.raymiss = [size |-> rmiss_group_size,
                         offset |-> raygen_group_size + rhit_group_size,
                         stride |-> handle_size],
            !.raycallable = NoRegion]
    /\ UNCHANGED <<frameVars, accelVars, bufVars, raster, ubo>>

\* Lines 190-194: get_ray_tracing_shader_group_handles returns
\* shader_group_handle_size * stage_create_info.len() bytes (three stages).
\* Lines 205-210: the raygen handle goes to the start of the table, the write
\* pointer advances by the raygen stride and the read pointer by one handle.
SbtCopyRaygen ==
    /\ sbt.pc = "copy_raygen"
    /\ sbt' = [sbt EXCEPT !.pc = "copy_hit",
                          !.handles_len = sbt.shader_group_handle_size * sbt.stage_count,
                          !.written = Append(@, [group |-> "raygen", at |-> 0, from |-> 0]),
                          !.cursor = sbt.raygen.stride,
                          !.handles_ptr = sbt.shader_group_handle_size,
                          !.i = 0]
    /\ UNCHANGED <<frameVars, accelVars, bufVars, raster, ubo>>

\* Lines 211-215: one pass of the hit loop.
SbtCopyHit ==
    /\ sbt.pc = "copy_hit"
    /\ sbt' = [sbt EXCEPT !.pc = IF sbt.i + 1 = sbt.hit_count THEN "copy_miss" ELSE @,
                          !.written = Append(@, [group |-> "rayhit", at |-> sbt.cursor,
                                                 from |-> sbt.handles_ptr]),
                          !.handles_ptr = @ + sbt.shader_group_handle_size,
                          !.cursor = @ + sbt.rayhit.stride,
                          !.i = IF sbt.i + 1 = sbt.hit_count THEN 0 ELSE @ + 1]
    /\ UNCHANGED <<frameVars, accelVars, bufVars, raster, ubo>>

\* Lines 216-220: one pass of the miss loop.
SbtCopyMiss ==
    /\ sbt.pc = "copy_miss"
    /\ sbt' = [sbt EXCEPT !.pc = IF sbt.i + 1 = sbt.miss_count THEN "done" ELSE @,
                          !.written = Append(@, [group |-> "raymiss", at |-> sbt.cursor,
                                                 from |-> sbt.handles_ptr]),
                          !.handles_ptr = @ + sbt.shader_group_handle_size,
                          !.cursor = @ + sbt.raymiss.stride,
                          !.i = IF sbt.i + 1 = sbt.miss_count THEN 0 ELSE @ + 1]
    /\ UNCHANGED <<frameVars, accelVars, bufVars, raster, ubo>>

\* Device limits (powers of two) and 1..MaxGroups hit and miss groups.
InitSbt ==
    /\ InitFrame
    /\ InitAccelIdle
    /\ InitBufIdle
    /\ InitRasterIdle
    /\ InitUboIdle
    /\ \E hs \in {16, 32}, ha \in {8, 16, 32}, ba \in {32, 64},
          hits \in 1 .. MaxGroups, misses \in 1 .. MaxGroups :
          sbt = [pc |-> "props", shader_group_handle_size |-> hs,
                 shader_group_handle_alignment |-> ha, shader_group_base_alignment |-> ba,
                 hit_count |-> hits, miss_count |-> misses, handle_size |-> 0,
                 sbt_size |-> 0, raygen |-> NoRegion, rayhit |-> NoRegion,
                 raymiss |-> NoRegion, raycallable |-> NoRegion, cursor |-> 0, i |-> 0,
                 written |-> <<>>, stage_count |-> 3, handles_len |-> 0,
                 handles_ptr |-> 0]

NextSbt ==
    \/ SbtLayout
    \/ SbtCopyRaygen
    \/ SbtCopyHit
    \/ SbtCopyMiss

SpecSbt == InitSbt /\ [][NextSbt]_vars

----------------------------------------------------------------------------
(* RasterRenderer::recreate_swap_chain, app/raster_renderer.rs:383-400 and
   examples/raster_renderer.rs:279-301 *)

\* What the surface reports as its current extent.
Extents == {<<640, 480>>, <<800, 600>>, <<1024, 768>>}

\* The statements that follow cleanup_swap_chain, in the order of each file.
RecreateOrder ==
    [app |-> <<"color", "depth", "render_target", "frame_buffers">>,
     examples |-> <<"render_target", "color", "depth", "frame_buffers">>]

Steps == <<"step1", "step2", "step3", "step4", "idle">>
StepNo == [step1 |-> 1, step2 |-> 2, step3 |-> 3, step4 |-> 4]
RasterAt(stmt) ==
    /\ raster.pc \in DOMAIN StepNo
    /\ RecreateOrder[raster.variant][StepNo[raster.pc]] = stmt
RasterAfter == Steps[StepNo[raster.pc] + 1]

\* An attachment built from the render target the renderer holds right now.
FromTarget == [from |-> raster.render_target.gen, extent |-> raster.render_target.extent]

\* A stale result makes draw_frame call recreate_swap_chain after the window was
\* resized; cleanup_swap_chain waits for the device and destroys colour, depth,
\* framebuffers and render target (the struct fields keep their old values).
RasterCleanup ==
    /\ raster.pc = "idle"
    /\ raster.render_target.gen < MaxGen
    /\ \E e \in Extents :
          raster' = [raster EXCEPT !.pc = "step1", !.surface = e,
                                   !.render_target.live = FALSE]
    /\ UNCHANGED <<frameVars, accelVars, bufVars, sbt, ubo>>

\* self.color = Color::new(.., &self.render_target)
RasterColorNew ==
    /\ RasterAt("color")
    /\ raster' = [raster EXCEPT !.pc = RasterAfter, !.color = FromTarget]
    /\ UNCHANGED <<frameVars, accelVars, bufVars, sbt, ubo>>

\* self.depth = Depth::new(.., &self.render_target, self.command_pool)
RasterDepthNew ==
    /\ RasterAt("depth")
    /\ raster' = [raster EXCEPT !.pc = RasterAfter, !.depth = FromTarget]
    /\ UNCHANGED <<frameVars, accelVars, bufVars, sbt, ubo>>

\* self.render_target = RenderTarget::new(..): a swapchain of the surface's
\* current extent.
RasterTargetNew ==
    /\ RasterAt("render_target")
    /\ raster' = [raster EXCEPT !.pc = RasterAfter,
                                !.render_target = [gen |-> @.gen + 1,
                                                   extent |-> raster.surface,
                                                   live |-> TRUE]]
    /\ UNCHANGED <<frameVars, accelVars, bufVars, sbt, ubo>>

\* self.frame_buffers = setup_frame_buffers(.., &self.render_target, depth.view,
\* color.view): one framebuffer per image view, of the render target's extent.
RasterFrameBuffersNew ==
    /\ RasterAt("frame_buffers")
    /\ raster' = [raster EXCEPT !.pc = RasterAfter, !.frame_buffers = FromTarget]
    /\ UNCHANGED <<frameVars, accelVars, bufVars, sbt, ubo>>

\* Either file's renderer after construction, all attachments built from the
\* first render target.
InitRaster ==
    /\ InitFrame
    /\ InitAccelIdle
    /\ InitBufIdle
    /\ InitSbtIdle
    /\ InitUboIdle
    /\ \E v \in DOMAIN RecreateOrder, e \in Extents :
          raster = [pc |-> "idle", variant |-> v, surface |-> e,
                    render_target |-> [gen |-> 1, extent |-> e, live |-> TRUE],
                    color |-> [from |-> 1, extent |-> e],
                    depth |-> [from |-> 1, extent |-> e],
                    frame_buffers |-> [from |-> 1, extent |-> e]]

NextRaster ==
    \/ RasterCleanup
    \/ RasterColorNew
    \/ RasterDepthNew
    \/ RasterTargetNew
    \/ RasterFrameBuffersNew

SpecRaster == InitRaster /\ [][NextRaster]_vars

----------------------------------------------------------------------------
(* RtUniformBuffer<T>, rt_ubo.rs:26-61 *)

\* The byte images of one T, for size_of::<T>() = n.
ItemBytes(n) == [1 .. n -> Byte]

\* copy_from_nonoverlapping on a *mut T counts in elements of T: this many bytes
\* are copied for a count of `count`.
ElementCopyBytes(count, size_of) == count * size_of

\* RtUniformBuffer::new(core, MAX_FRAMES_IN_FLIGHT): one buffer of size_of::<T>()
\* bytes per entry, mapped as *mut T; the mapped memory holds unspecified bytes.
InitUbo ==
    /\ InitFrame
    /\ InitAccelIdle
    /\ InitBufIdle
    /\ InitSbtIdle
    /\ InitRasterIdle
    /\ \E n \in 1 .. MaxSizeOf :
       \E m \in [Slots -> ItemBytes(n)] :
          ubo = [pc |-> "idle", size_of |-> n, item |-> <<>>, descriptor_idx |-> 0,
                 mapped |-> m, before |-> m, bytes_written |-> 0, overrun |-> "none"]

\* draw_frame builds the one-element array of T it passes to set_mapped together
\* with the frame slot.
UboBuildTransforms ==
    /\ ubo.pc \in {"idle", "written"}
    /\ \E i \in ItemBytes(ubo.size_of), s \in Slots :
          ubo' = [ubo EXCEPT !.pc = "call", !.item = i, !.descriptor_idx = s,
                             !.before = ubo.mapped, !.bytes_written = 0]
    /\ UNCHANGED <<frameVars, accelVars, bufVars, sbt, raster>>

\* set_mapped: mapped[descriptor_idx].copy_from_nonoverlapping(item.as_ptr(),
\* size_of::<T>()).  The first size_of bytes land in the slot's buffer; a copy
\* that runs past the buffer's mapping is undefined: it faults, or it overwrites
\* whatever is mapped behind the buffer, which may include other slots' buffers.
UboSetMapped ==
    /\ ubo.pc = "call"
    /\ LET n == ElementCopyBytes(ubo.size_of, ubo.size_of)
           idx == ubo.descriptor_idx
       IN  \/ /\ n <= ubo.size_of
              /\ ubo' = [ubo EXCEPT !.pc = "written", !.mapped[idx] = ubo.item,
                                    !.bytes_written = n, !.overrun = "none"]
           \/ /\ n > ubo.size_of
              /\ \E m \in [Slots -> ItemBytes(ubo.size_of)] :
                    /\ m[idx] = ubo.item
                    /\ ubo' = [ubo EXCEPT !.pc = "written", !.mapped = m,
                                          !.bytes_written = n, !.overrun = "spill"]
           \/ /\ n > ubo.size_of
              /\ ubo' = [ubo EXCEPT !.pc = "crashed", !.mapped[idx] = ubo.item,
                                    !.bytes_written = ubo.size_of, !.overrun = "fault"]
    /\ UNCHANGED <<frameVars, accelVars, bufVars, sbt, raster>>

NextUbo ==
    \/ UboBuildTransforms
    \/ UboSetMapped

SpecUbo == InitUbo /\ [][NextUbo]_vars

----------------------------------------------------------------------------
(* Properties of the frame scheduler *)

Range(s) == {s[i] : i \in 1 .. Len(s)}
OutOfDate == "ERROR_OUT_OF_DATE_KHR"
DrawOps == {"reset_fences", "reset_command_buffer", "record_command_buffer",
            "queue_submit", "queue_present"}

\* C1: the number of frames submitted with an in-flight fence and not yet
\* retired by the device never exceeds MAX_FRAMES_IN_FLIGHT.
C1_BoundedFlight == Len(gpu) <= MAX_FRAMES_IN_FLIGHT
C1_Witness == Len(gpu) = MAX_FRAMES_IN_FLIGHT

\* C2: whenever the host is about to reset the slot's command buffer, or has
\* re-recorded it and not yet submitted it, this tick has waited on the slot's
\* fence and no earlier submission of that slot is still executing.
C2_RecordAfterFence ==
    pc \in {"record", "submit"} =>
        /\ "wait_for_fences" \in Range(ops)
        /\ \A i \in 1 .. Len(gpu) : gpu[i].slot # current_frame
C2_Witness ==
    /\ pc = "submit"
    /\ ticks > MAX_FRAMES_IN_FLIGHT
    /\ gpu # <<>>

\* C3 (as stated): every tick that ends leaves current_frame advanced by one
\* modulo MAX_FRAMES_IN_FLIGHT, the out-of-date acquire tick included.
C3_AdvanceAlways ==
    [][(pc # "idle" /\ pc' = "idle") =>
          current_frame' = (current_frame + 1) % MAX_FRAMES_IN_FLIGHT]_vars

\* C3 (amended): a tick that got past acquire advances current_frame by one
\* modulo MAX_FRAMES_IN_FLIGHT, also when present reported out of date and the
\* swapchain was recreated; a tick whose acquire reported out of date returns
\* with current_frame unchanged.
C3_AdvanceUnlessAcquireStale ==
    [][(pc # "idle" /\ pc' = "idle") =>
          current_frame' = IF acq = OutOfDate
                           THEN current_frame
                           ELSE (current_frame + 1) % MAX_FRAMES_IN_FLIGHT]_vars
C3_Witness ==
    /\ pc = "idle"
    /\ ticks = 1
    /\ pres = OutOfDate
    /\ render_target = 2
    /\ current_frame = 1

\* C4: outside recreate_swap_chain every per-frame descriptor set's storage-image
\* binding is the view of the current canvas, and no recorded or submitted
\* command buffer references a destroyed canvas view.
C4_DescriptorsFollowCanvas ==
    pc \in {"idle", "wait", "acquire", "record", "submit", "present"} =>
        /\ \A s \in Slots : descView[s] = canvas
        /\ \A i \in 1 .. Len(gpu) : gpu[i].view \in cvLive

\* C5: a swapchain or canvas generation is destroyed only right after
\* device_wait_idle returned with no unfinished frame on the device, and a new
\* generation is created only when no older generation is left alive.
C5_DestroyAfterIdle ==
    [][/\ (rtLive' # rtLive \/ cvLive' # cvLive) /\ rtLive' \subseteq rtLive =>
            /\ gpu = <<>>
            /\ ops[Len(ops)] = "device_wait_idle"
            /\ cvLive' \subseteq cvLive
       /\ ~(rtLive' \subseteq rtLive) \/ ~(cvLive' \subseteq cvLive) =>
            /\ rtLive = {}
            /\ cvLive = {}]_vars
C5_Witness ==
    /\ pc = "recreate_new"
    /\ ret = "present"
    /\ rtLive = {}
    /\ cvLive = {}
    /\ \E s \in Slots : cmdbuf[s].swap = render_target

\* C6: in a tick whose acquire reported ERROR_OUT_OF_DATE_KHR the slot's fence
\* stays signaled, the command buffer is neither reset nor recorded, and nothing
\* is submitted or presented.
C6_StaleAcquireDrawsNothing ==
    acq = OutOfDate =>
        /\ Range(ops) \cap DrawOps = {}
        /\ fence[current_frame]
        /\ pc \notin {"record", "submit", "present"}
C6_Witness ==
    /\ acq = OutOfDate
    /\ pc = "idle"
    /\ render_target > 1
    /\ ops[Len(ops)] = "create"

\* C7: a present call that reported out of date or suboptimal is followed by
\* recreate_swap_chain, entered after queue_present, and the frame submitted in
\* that tick stays submitted (it is on the queue or its fence has signaled).
C7_PresentStaleRecreates ==
    pres \in {OutOfDate, "SUBOPTIMAL_KHR"} =>
        /\ \/ pc \in {"cleanup_wait", "cleanup_destroy", "recreate_new"} /\ ret = "present"
           \/ "create" \in Range(ops)
        /\ \/ \E i \in 1 .. Len(gpu) : gpu[i].tick = ticks
           \/ fence[frameLog[ticks]]

\* C8: without staleness tick i uses frame index (i - 1) mod MAX_FRAMES_IN_FLIGHT
\* (0,1,0,1,0 for five ticks), and a tick past its fence wait finds the frame
\* submitted MAX_FRAMES_IN_FLIGHT ticks earlier (tick 1 for tick 3) retired.
C8_FiveFrames ==
    ~stale =>
        /\ \A i \in 1 .. Len(frameLog) : frameLog[i] = (i - 1) % MAX_FRAMES_IN_FLIGHT
        /\ pc \in {"acquire", "record", "submit", "present"} =>
              \A i \in 1 .. Len(gpu) : gpu[i].tick # ticks - MAX_FRAMES_IN_FLIGHT
C8_Witness ==
    /\ ~stale
    /\ frameLog = <<0, 1, 0, 1, 0>>
    /\ pc = "present"
    /\ Len(gpu) = MAX_FRAMES_IN_FLIGHT

----------------------------------------------------------------------------
(* Properties of the acceleration builder *)

\* C9: a TLAS build command is on the queue only when the build of every BLAS
\* its instances reference has already executed on the device, and the slice
\* new_tlas gets holds nothing but the structure new_blas returned.
C9_TlasAfterBlas ==
    /\ \A i \in 1 .. Len(queue) :
          queue[i].kind = "build_tlas" =>
              \A j \in 1 .. Len(queue[i].refs) : queue[i].refs[j].handle \in built
    /\ blas # NullHandle => blas \in built
    /\ \A j \in 1 .. Len(blasArg) : blasArg[j] = blas /\ blas # NullHandle
C9_Witness ==
    /\ apc = "tlas_build_wait"
    /\ queue # <<>>
    /\ Head(queue).kind = "build_tlas"
    /\ Len(Head(queue).refs) = 1
    /\ BlasHandle \in built

\* C10: new_tlas never submits a TLAS build for a slice holding a null or
\* never-built BLAS: whenever a TLAS build has been recorded and submitted,
\* every instance refers to the address of a built structure.
C10_TlasRejectsUnbuilt ==
    apc \in {"tlas_build_wait", "done"} =>
        \A j \in 1 .. Len(geometries) :
            /\ geometries[j].handle \in built
            /\ geometries[j].acceleration_structure_reference = AddrOf(geometries[j].handle)

----------------------------------------------------------------------------
(* Error handling, step order and liveness of the frame scheduler *)

Recovered == {"none", "SUCCESS", "SUBOPTIMAL_KHR", OutOfDate}
CanonicalTick == <<"set_mapped", "wait_for_fences", "acquire_next_image", "reset_fences",
                   "reset_command_buffer", "record_command_buffer", "queue_submit",
                   "queue_present">>
IsPrefix(s, t) == Len(s) <= Len(t) /\ \A i \in 1 .. Len(s) : s[i] = t[i]
TickCalls(s) == LET InTick(x) == x \in Range(CanonicalTick) IN SelectSeq(s, InTick)

\* C16: once acquire returned an error other than out of date, or present an
\* error other than out of date / suboptimal, the process has panicked: it is
\* not recreating and not back in the loop; recreation is entered from
\* draw_frame only on staleness.
C16_UnknownErrorsPanic ==
    /\ acq \notin Recovered => pc = "panic"
    /\ pres \notin Recovered => pc = "panic"
    /\ (pc \in {"cleanup_wait", "cleanup_destroy", "recreate_new"} /\ ret # "drop") =>
          acq = OutOfDate \/ pres = OutOfDate
C16_Witness ==
    /\ pc = "panic"
    /\ pres = "ERROR_DEVICE_LOST"
    /\ ticks > 1

\* C17: the device calls of one tick are a prefix of wait, acquire, fence reset,
\* command-buffer reset and record, submit, present, and device_wait_idle of a
\* recreation comes right after acquire or right after present (or, for Drop,
\* outside a tick).
C17_TickOrder ==
    /\ IsPrefix(TickCalls(ops), CanonicalTick)
    /\ \A i \in 1 .. Len(ops) :
          ops[i] = "device_wait_idle" =>
              \/ i = 1
              \/ ops[i - 1] \in {"acquire_next_image", "queue_present"}
              \/ ops[i - 1] = "create" /\ ret = "drop"
    /\ (pc = "cleanup_wait" /\ ret # "drop") =>
          ops[Len(ops)] \in {"acquire_next_image", "queue_present"}
C17_Witness ==
    /\ pc = "idle"
    /\ ops = CanonicalTick \o <<"device_wait_idle", "destroy", "create">>

\* C13: whenever the renderer is back in its loop exactly one generation of
\* swapchain and of canvas is live (the one it holds), every earlier generation
\* has been destroyed, and no handle is ever destroyed twice -- also after two
\* recreate_swap_chain calls in a row.
Generations == 1 .. (nextGen - 1)
C13_OneLiveGeneration ==
    /\ \A i, j \in 1 .. Len(destroyed) : destroyed[i] = destroyed[j] => i = j
    /\ pc = "idle" =>
          /\ rtLive = {render_target}
          /\ cvLive = {canvas}
          /\ \A g \in Generations \ {render_target} : <<"render_target", g>> \in Range(destroyed)
          /\ \A g \in Generations \ {canvas} : <<"canvas", g>> \in Range(destroyed)
C13_Witness ==
    /\ pc = "idle"
    /\ ops = <<"device_wait_idle", "destroy", "create", "device_wait_idle", "destroy", "create">>
    /\ Len(destroyed) = 4

\* C18: every submitted frame of slot s waits on image_available[s], which that
\* tick's acquire signaled, and signals render_finished[s] and fence s; every
\* queued present of slot s's frame waits on render_finished[s]; the frame on
\* screen is never one whose GPU work is still unfinished.
C18_PresentAfterRender ==
    /\ \A i \in 1 .. Len(gpu) :
          /\ gpu[i].wait = {gpu[i].slot}
          /\ gpu[i].signal = {gpu[i].slot}
          /\ gpu[i].fence = gpu[i].slot
          /\ image_available[gpu[i].slot]
          /\ gpu[i].tick # shown
    /\ \A i \in 1 .. Len(presentq) :
          presentq[i].wait = {frameLog[presentq[i].tick]}
C18_Witness ==
    /\ shown = 2
    /\ Len(gpu) = 1
    /\ gpu[1].tick = 3
    /\ presentq # <<>>

\* C19: a fence is unsignaled only while the tick that reset it is about to
\* submit or its submission is still on the device, and under fair device
\* progress every fence wait returns.
FenceBacked ==
    \A s \in Slots :
        ~fence[s] => \/ \E i \in 1 .. Len(gpu) : gpu[i].slot = s
                     \/ pc = "submit" /\ current_frame = s
C19_FenceWaitReturns == []FenceBacked /\ ((pc = "wait") ~> (pc = "acquire"))
C19_Witness ==
    /\ pc = "wait"
    /\ ~fence[current_frame]
    /\ stale

\* C20: when draw_frame writes the slot's uniform buffer (set_mapped, on entry)
\* no submitted frame of that slot is still unfinished on the device.
C20_UboWriteAfterFence ==
    [][(pc = "idle" /\ pc' = "wait") =>
          \A i \in 1 .. Len(gpu) : gpu[i].slot # current_frame]_vars

----------------------------------------------------------------------------
(* Properties of buffer uploads *)

\* C11: a queued copy never names a destroyed buffer, and once new_initialized
\* has returned the staging buffer is gone, its copy has executed and the
\* destination holds the items.
C11_CopyBeforeReturn ==
    /\ \A i \in 1 .. Len(queue) :
          queue[i].kind = "copy_buffer" => queue[i].src \in live /\ queue[i].dst \in live
    /\ bpc = "returned" =>
          /\ "staging" \notin live
          /\ queue = <<>>
          /\ mem["dest"] = Flatten(items)
C11_Witness ==
    /\ bpc = "returned"
    /\ "staging" \notin live
    /\ Len(allocLog) = 2

\* C12: allocate_memory is never called with a memory_type_index that names no
\* memory type of the device (find_buf_index reports the missing type instead).
C12_NoInvalidAllocation ==
    \A i \in 1 .. Len(allocLog) : ValidIndex(allocLog[i])

\* C14: after the upload the destination holds exactly size_of(item) * K bytes,
\* the items' bytes in order, and the read-back buffer reproduces them.
C14_RoundTrip ==
    /\ bpc \in {"returned", "rb_wait", "done"} =>
          /\ Len(mem["dest"]) = SizeOf(items) * Len(items)
          /\ \A i \in 1 .. Len(mem["dest"]) :
                mem["dest"][i] = items[((i - 1) \div SizeOf(items)) + 1]
                                      [((i - 1) % SizeOf(items)) + 1]
    /\ bpc = "done" => mem["readback"] = Flatten(items)
C14_Witness ==
    /\ bpc = "done"
    /\ Len(items) = 2
    /\ mem["readback"] = <<0, 1, 1, 0>>

----------------------------------------------------------------------------
(* Properties of the shader binding table *)

Limits_32_32_64 ==
    /\ sbt.shader_group_handle_size = 32
    /\ sbt.shader_group_handle_alignment = 32
    /\ sbt.shader_group_base_alignment = 64
LaidOut == sbt.pc \in {"copy_raygen", "copy_hit", "copy_miss", "done"}

\* C15 as stated: for 32/32/64 the raygen region has size 64 and stride 32, and
\* a hit region of 3 groups has stride 32 and size 128.
C15_RaygenStride32 ==
    (LaidOut /\ Limits_32_32_64) =>
        /\ sbt.raygen.size = 64 /\ sbt.raygen.stride = 32
        /\ sbt.hit_count = 3 => sbt.rayhit.stride = 32 /\ sbt.rayhit.size = 128

\* C15 amended: for 32/32/64 the raygen region has size 64 and its stride equals
\* its size, 64; a hit region of 3 groups has stride 32 and size 128.
C15_RaygenStrideIsSize ==
    (LaidOut /\ Limits_32_32_64) =>
        /\ sbt.raygen.size = 64 /\ sbt.raygen.stride = 64
        /\ sbt.hit_count = 3 => sbt.rayhit.stride = 32 /\ sbt.rayhit.size = 128
C15_Witness ==
    /\ sbt.pc = "done"
    /\ Limits_32_32_64
    /\ sbt.hit_count = 3

AlignUp(x, a) == ((x + a - 1) \div a) * a
RegionSize(n) ==
    AlignUp(AlignUp(sbt.shader_group_handle_size, sbt.shader_group_handle_alignment) * n,
            sbt.shader_group_base_alignment)

\* C21: every handle is written at its region's offset in the buffer plus its
\* index in the region times the region's stride.
C21_HandleAtRegionSlot ==
    \A k \in 1 .. Len(sbt.written) :
        LET w == sbt.written[k]
            idx == Cardinality({j \in 1 .. (k - 1) : sbt.written[j].group = w.group})
        IN  w.at = sbt[w.group].offset + idx * sbt[w.group].stride

\* C24: once the table is laid out the raygen region's stride equals its size.
C24_RaygenStrideEqualsSize ==
    LaidOut => sbt.raygen.stride = sbt.raygen.size
C24_Witness ==
    /\ LaidOut
    /\ sbt.handle_size = 32
    /\ sbt.raygen.size = 64
    /\ sbt.raygen.stride = 64

\* C25: the region sizes are region_size(n), the buffer size is their sum, the
\* raygen, hit and miss regions follow one another without gap or overlap at
\* offsets that are multiples of the base alignment, inside the buffer, and the
\* callable region (no groups) has size 0.
C25_RegionsTileBuffer ==
    LaidOut =>
        /\ sbt.raygen.size = RegionSize(1)
        /\ sbt.rayhit.size = RegionSize(sbt.hit_count)
        /\ sbt.raymiss.size = RegionSize(sbt.miss_count)
        /\ sbt.raycallable.size = 0 /\ RegionSize(0) = 0
        /\ sbt.sbt_size = sbt.raygen.size + sbt.rayhit.size + sbt.raymiss.size
                          + sbt.raycallable.size
        /\ sbt.raygen.offset = 0
        /\ sbt.rayhit.offset = sbt.raygen.offset + sbt.raygen.size
        /\ sbt.raymiss.offset = sbt.rayhit.offset + sbt.rayhit.size
        /\ sbt.raymiss.offset + sbt.raymiss.size <= sbt.sbt_size
        /\ \A g \in {"raygen", "rayhit", "raymiss"} :
              sbt[g].offset % sbt.shader_group_base_alignment = 0
C25_Witness ==
    /\ sbt.pc = "done"
    /\ sbt.hit_count = 2
    /\ sbt.miss_count = 2
    /\ sbt.sbt_size = 192

----------------------------------------------------------------------------
(* Properties of the acceleration builder: build destination, ownership, geometry *)

\* C22: every TLAS build command has the structure new_tlas created as its
\* destination, and a TLAS handle that has been returned was written by a build.
C22_TlasBuildWritesReturned ==
    /\ \A i \in 1 .. Len(queue) :
          queue[i].kind = "build_tlas" => queue[i].dst = TlasHandle
    /\ tlas # NullHandle => tlas \in built

\* C23: no object of the builder is destroyed twice, and once the renderer has
\* shut down every object the builder created has been destroyed.
C23_AccelObjectsFreed ==
    /\ \A i, j \in 1 .. Len(objects.destroyed) :
          objects.destroyed[i] = objects.destroyed[j] => i = j
    /\ apc = "shutdown" => Range(objects.created) = Range(objects.destroyed)

\* C27: a TLAS build command carries one instances geometry holding one
\* instance per BLAS of the slice, in order, and as many build ranges and
\* max-primitive counts as geometries.
C27_SingleInstancesGeometry ==
    \A i \in 1 .. Len(queue) :
        queue[i].kind = "build_tlas" =>
            /\ Len(queue[i].refs) = 1
            /\ Len(queue[i].build_range_infos) = Len(queue[i].refs)
            /\ Len(queue[i].max_primitive_counts) = Len(queue[i].refs)
            /\ queue[i].primitive_count = Len(blasArg)

----------------------------------------------------------------------------
(* Properties of swapchain recreation: configuration *)

\* C29: the render target the ray-tracing renderer holds always has the
\* configuration RtRenderer::new gave it, also after recreate_swap_chain.
C29_SameConfigAfterRecreate ==
    rt_config = RenderTargetNew({"TRANSFER_DST", "COLOR_ATTACHMENT"}, "B8G8R8A8_UNORM", "None")
\* C28: when the raster renderer is back from recreate_swap_chain its colour
\* attachment, depth attachment and framebuffers were all built from the render
\* target it now holds and have that target's extent.
C28_AttachmentsFromNewTarget ==
    raster.pc = "idle" =>
        \A a \in {"color", "depth", "frame_buffers"} :
            /\ raster[a].from = raster.render_target.gen
            /\ raster[a].extent = raster.render_target.extent
\* C30: a returned set_mapped call has written exactly size_of::<T>() bytes, all
\* of them inside slot descriptor_idx's buffer, which now holds the item, and the
\* buffers of the other slots are as they were before the call.
C30_WritesOneItem ==
    ubo.pc \in {"written", "crashed"} =>
        /\ ubo.bytes_written = ubo.size_of
        /\ ubo.overrun = "none"
        /\ ubo.mapped[ubo.descriptor_idx] = ubo.item
        /\ \A s \in Slots \ {ubo.descriptor_idx} : ubo.mapped[s] = ubo.before[s]

====
